---- MODULE Spec2Model ----
(***************************************************************************)
(* Model of WorkerAgent (src/core/agent/worker.py): resource-checked       *)
(* admission, semaphore-gated registration, per-task execution under a     *)
(* deadline, result reporting, and cancel-and-gather shutdown.             *)
(*                                                                         *)
(* The worker runs on one asyncio event loop, so every stretch of code     *)
(* between two suspension points is one atomic action.  The suspension     *)
(* points of the code are: the first scheduling of a created task, the     *)
(* await of the task body, the await of the reporter (whose body is the    *)
(* network call behind the AgentNetworkError handler) and the await of     *)
(* gather in shutdown.                                                     *)
(***************************************************************************)
EXTENDS Integers, Sequences, FiniteSets, TLC

(***************************************************************************)
(* Bounds of the model.                                                    *)
(***************************************************************************)
\* number of executions (asyncio tasks) ever created
MaxExec == 2
\* WorkerConfig.max_concurrent_tasks as configured (any value > 0)
max_concurrent_tasks == 1

Execs == 1..MaxExec
\* the task_id values requests carry: enough for equal and for distinct ids
TaskIds == {"t1", "t2"}
NoId == "none"
Kinds == {"cpu", "mem_gb"}

(***************************************************************************)
(* ResourceProfile values are Python floats (IEEE-754 binary64).  A float  *)
(* is kept exactly as sign and magnitude, the magnitude being an integer   *)
(* number of units of 2^-56 split in two limbs: (hi * 2^30 + lo) * 2^-56.  *)
(* Every float that occurs (amounts of 0.2 and more, loads below 32) is a  *)
(* whole number of such units, and an operation rounds its exact result to *)
(* 53 significant bits, to nearest, ties to even.                          *)
(***************************************************************************)
Limb == 1073741824
MantHi == 8388608

F(n, h, l) == [neg |-> n, hi |-> h, lo |-> l]
Zero == F(FALSE, 0, 0)

\* number of low bits a magnitude with high limb h has beyond 53
RECURSIVE DropBits(_)
DropBits(h) == IF h < MantHi THEN 0 ELSE 1 + DropBits(h \div 2)

RECURSIVE Pow2(_)
Pow2(j) == IF j = 0 THEN 1 ELSE 2 * Pow2(j - 1)

MagLess(a, b) == a.hi < b.hi \/ (a.hi = b.hi /\ a.lo < b.lo)

\* exact sum and difference of magnitudes (a >= b for the difference)
MagAdd(a, b) ==
    LET l == a.lo + b.lo
    IN  IF l >= Limb THEN [hi |-> a.hi + b.hi + 1, lo |-> l - Limb]
                     ELSE [hi |-> a.hi + b.hi, lo |-> l]
MagSub(a, b) ==
    IF a.lo >= b.lo THEN [hi |-> a.hi - b.hi, lo |-> a.lo - b.lo]
                    ELSE [hi |-> a.hi - b.hi - 1, lo |-> a.lo + Limb - b.lo]

\* round an exact magnitude to a binary64 magnitude
RoundMag(m) ==
    LET j    == DropBits(m.hi)
        q    == Pow2(j)
        r    == m.lo % q
        base == m.lo - r
        up   == j > 0 /\ (2 * r > q \/ (2 * r = q /\ (base \div q) % 2 = 1))
        l    == IF up THEN base + q ELSE base
    IN  IF l >= Limb THEN [hi |-> m.hi + 1, lo |-> l - Limb]
                     ELSE [hi |-> m.hi, lo |-> l]

\* exact signed sum of two floats, before rounding
ExactAdd(a, b) ==
    IF a.neg = b.neg
    THEN LET m == MagAdd(a, b) IN F(a.neg /\ (m.hi > 0 \/ m.lo > 0), m.hi, m.lo)
    ELSE IF MagLess(a, b)
         THEN LET m == MagSub(b, a) IN F(b.neg, m.hi, m.lo)
         ELSE LET m == MagSub(a, b)
              IN  F(a.neg /\ (m.hi > 0 \/ m.lo > 0), m.hi, m.lo)

RoundF(x) == LET m == RoundMag(x) IN F(x.neg, m.hi, m.lo)

FNeg(a) == F(~a.neg /\ (a.hi > 0 \/ a.lo > 0), a.hi, a.lo)

\* Python  a + b,  a - b  and  a <= b  on floats
FAdd(a, b) == RoundF(ExactAdd(a, b))
FSub(a, b) == RoundF(ExactAdd(a, FNeg(b)))
FLeq(a, b) ==
    IF a.neg /\ ~b.neg THEN TRUE
    ELSE IF ~a.neg /\ b.neg THEN FALSE
    ELSE IF a.neg THEN ~MagLess(a, b)
    ELSE ~MagLess(b, a)

\* the float literals used by the configuration and the requests
F0_2 == F(FALSE, 13421772, 858993460)
F1_0 == F(FALSE, 67108864, 0)
F1_2 == F(FALSE, 80530636, 858993456)
F0_4 == F(FALSE, 26843545, 644245096)
F0_45 == F(FALSE, 30198988, 858993460)
F1_55 == F(FALSE, 104018739, 214748368)
F2_0 == F(FALSE, 134217728, 0)
F4_0 == F(FALSE, 268435456, 0)
F8_0 == F(FALSE, 536870912, 0)

(***************************************************************************)
(* Configuration and requests.                                             *)
(***************************************************************************)
\* WorkerConfig.resource_limits default
resource_limits == [cpu |-> F2_0, mem_gb |-> F8_0]

\* required_resources of the requests: a large request (two of them exceed
\* the cpu limit) and a small one
Profiles == { [cpu |-> F1_2, mem_gb |-> F4_0],
              [cpu |-> F0_2, mem_gb |-> F1_0] }

TaskRequest == [task_id : TaskIds, required_resources : Profiles]
NoTask == [task_id |-> NoId, required_resources |-> [cpu |-> Zero, mem_gb |-> Zero]]

\* TaskResult(task_id, success, metrics): metrics is "result" for the dict
\* the body returned, else the error reason
TaskResult(tid, ok, m) == [task_id |-> tid, success |-> ok, metrics |-> m]

VARIABLES
    task_registry,  \* _task_registry: task_id -> execution handle (0: no entry)
    current_load,   \* _current_load
    permits,        \* value of _resource_semaphore
    st,             \* position of every execution of _execute_task
    task,           \* the TaskRequest an execution was created with
    must_cancel,    \* cancel() was called on the handle and not yet delivered
    body,           \* how the await of _run_task_impl ended
    reports,        \* TaskResults handed to _report_to_orchestrator
    nextExec,       \* handle the next create_task returns
    response,       \* outcome last returned by _handle_task_request
    sd,             \* position of shutdown()
    awaited,        \* handles passed to gather by shutdown()
    metrics,        \* WorkerMetrics last returned by get_metrics()
    construction    \* the WorkerConfig being constructed and how that ended

vars == <<task_registry, current_load, permits, st, task, must_cancel, body,
          reports, nextExec, response, sd, awaited, metrics, construction>>

\* what the task handling code never touches
aux == <<metrics, construction>>

Terminal(e) == st[e] \in {"finished", "cancelled"}
InFlight(e) == st[e] \in {"scheduled", "body", "reporting", "failing"}

\* WorkerConfig(...): Field(5, gt=0) on max_concurrent_tasks and the
\* validator of resource_limits
validate_resources(v) ==
    IF FLeq(v["cpu"], Zero) \/ FLeq(v["mem_gb"], Zero) THEN "ValueError" ELSE "ok"
WorkerConfig(c) ==
    IF c.max_concurrent_tasks > 0 /\ validate_resources(c.resource_limits) = "ok"
    THEN "ok" ELSE "ValidationError"

\* the configuration WorkerAgent.__init__ builds
DefaultConfig ==
    [max_concurrent_tasks |-> max_concurrent_tasks, resource_limits |-> resource_limits]
NoMetrics == <<>>

\* WorkerAgent.__init__, the task handling state
InitWorker ==
    /\ task_registry = [t \in TaskIds |-> 0]
    /\ current_load = [cpu |-> Zero, mem_gb |-> Zero]
    /\ permits = max_concurrent_tasks
    /\ st = [e \in Execs |-> "unborn"]
    /\ task = [e \in Execs |-> NoTask]
    /\ must_cancel = [e \in Execs |-> FALSE]
    /\ body = [e \in Execs |-> "pending"]
    /\ reports = [e \in Execs |-> <<>>]
    /\ nextExec = 1
    /\ response = "none"
    /\ sd = "running"
    /\ awaited = {}
    /\ metrics = NoMetrics

\* WorkerAgent.__init__
Init ==
    /\ InitWorker
    /\ construction = [config |-> DefaultConfig, outcome |-> WorkerConfig(DefaultConfig)]

\* WorkerAgent._check_resources
check_resources(load, required) ==
    /\ FLeq(FAdd(load["cpu"], required["cpu"]), resource_limits["cpu"])
    /\ FLeq(FAdd(load["mem_gb"], required["mem_gb"]), resource_limits["mem_gb"])

\* asyncio.Semaphore: acquire returns at once when the value is positive
acquire(v) == v - 1
\* a handler that leaves the block without giving the permit back
release_missing(v) == v
release(v) == v + 1

\* a handler that reserves the requirement before it checks and does not
\* give it back when it rejects
Reject_reserves(t) ==
    /\ sd = "running"
    /\ ~check_resources(current_load, t.required_resources)
    /\ response' = "insufficient_resources"
    /\ current_load' =
         [cpu    |-> FAdd(current_load["cpu"], t.required_resources["cpu"]),
          mem_gb |-> FAdd(current_load["mem_gb"], t.required_resources["mem_gb"])]
    /\ UNCHANGED <<task_registry, permits, st, task, must_cancel,
                   body, reports, nextExec, sd, awaited>>
    /\ UNCHANGED aux

\* _handle_task_request, resource check fails
Reject(t) ==
    /\ sd = "running"
    /\ ~check_resources(current_load, t.required_resources)
    /\ response' = "insufficient_resources"
    /\ UNCHANGED <<task_registry, current_load, permits, st, task, must_cancel,
                   body, reports, nextExec, sd, awaited>>
    /\ UNCHANGED aux

\* _handle_task_request, resource check passes: take a permit, create the
\* task and register it, give the permit back, answer "queued"
Admit(t) ==
    /\ sd = "running"
    /\ nextExec <= MaxExec
    /\ check_resources(current_load, t.required_resources)
    /\ permits > 0
    /\ task_registry' = [task_registry EXCEPT ![t.task_id] = nextExec]
    /\ st' = [st EXCEPT ![nextExec] = "scheduled"]
    /\ task' = [task EXCEPT ![nextExec] = t]
    /\ nextExec' = nextExec + 1
    /\ permits' = release(acquire(permits))
    /\ response' = "queued"
    /\ UNCHANGED <<current_load, must_cancel, body, reports, sd, awaited>>
    /\ UNCHANGED aux

\* _execute_task, first step: add the requirement to the load, enter the
\* timeout block and suspend in _run_task_impl
StartExecution(e) ==
    /\ st[e] = "scheduled"
    /\ ~must_cancel[e]
    /\ current_load' =
         [cpu    |-> FAdd(current_load["cpu"], task[e].required_resources["cpu"]),
          mem_gb |-> FAdd(current_load["mem_gb"], task[e].required_resources["mem_gb"])]
    /\ st' = [st EXCEPT ![e] = "body"]
    /\ UNCHANGED <<task_registry, permits, task, must_cancel, body, reports,
                   nextExec, response, sd, awaited>>
    /\ UNCHANGED aux

\* the finally block of _execute_task: give the requirement back and drop
\* the registry entry filed under the task's id
ReleaseLoad(load, required) ==
    [cpu    |-> FSub(load["cpu"], required["cpu"]),
     mem_gb |-> FSub(load["mem_gb"], required["mem_gb"])]
Pop(reg, tid) == [reg EXCEPT ![tid] = 0]

Finally(e, how) ==
    /\ current_load' = ReleaseLoad(current_load, task[e].required_resources)
    /\ task_registry' = Pop(task_registry, task[e].task_id)
    /\ st' = [st EXCEPT ![e] = how]

\* _report_to_orchestrator(result), called from position 'at' of _execute_task:
\* the result is handed over; the call either returns within the step (the
\* report went through, or AgentNetworkError was caught and logged) or
\* suspends on the network, leaving the execution at 'waiting'
Report(e, result, suspends, waiting) ==
    /\ reports' = [reports EXCEPT ![e] = Append(@, result)]
    /\ IF suspends
       THEN /\ st' = [st EXCEPT ![e] = waiting]
            /\ UNCHANGED <<current_load, task_registry>>
       ELSE Finally(e, "finished")

\* a failure handler that reports and then launches the body again
handle_task_failure_retries(e, reason, suspends) ==
    /\ reports' = [reports EXCEPT ![e] = Append(@, TaskResult(task[e].task_id, FALSE, reason))]
    /\ st' = [st EXCEPT ![e] = "body"]
    /\ UNCHANGED <<current_load, task_registry>>

\* _handle_task_failure(task_id, reason)
handle_task_failure(e, reason, suspends) ==
    Report(e, TaskResult(task[e].task_id, FALSE, reason), suspends, "failing")

\* _run_task_impl returns its metrics inside the deadline: report success
BodyReturns(e, suspends) ==
    /\ st[e] = "body"
    /\ ~must_cancel[e]
    /\ body' = [body EXCEPT ![e] = "returned"]
    /\ Report(e, TaskResult(task[e].task_id, TRUE, "result"), suspends, "reporting")
    /\ UNCHANGED <<permits, task, must_cancel, nextExec, response, sd, awaited>>
    /\ UNCHANGED aux

\* _run_task_impl raises an Exception: except Exception
BodyRaises(e, suspends) ==
    /\ st[e] = "body"
    /\ ~must_cancel[e]
    /\ body' = [body EXCEPT ![e] = "raised"]
    /\ handle_task_failure(e, "error", suspends)
    /\ UNCHANGED <<permits, task, must_cancel, nextExec, response, sd, awaited>>
    /\ UNCHANGED aux

\* an executor whose generic except clause also takes the TimeoutError
Timeout_asError(e, suspends) ==
    /\ st[e] \in {"body", "reporting"}
    /\ ~must_cancel[e]
    /\ body' = [body EXCEPT ![e] = IF st[e] = "body" THEN "expired" ELSE @]
    /\ handle_task_failure(e, "error", suspends)
    /\ UNCHANGED <<permits, task, must_cancel, nextExec, response, sd, awaited>>
    /\ UNCHANGED aux

\* the deadline of asyncio.timeout expires while the execution is suspended
\* inside the block (in the body or in the report of the success result):
\* except asyncio.TimeoutError
Timeout(e, suspends) ==
    /\ st[e] \in {"body", "reporting"}
    /\ ~must_cancel[e]
    /\ body' = [body EXCEPT ![e] = IF st[e] = "body" THEN "expired" ELSE @]
    /\ handle_task_failure(e, "timeout", suspends)
    /\ UNCHANGED <<permits, task, must_cancel, nextExec, response, sd, awaited>>
    /\ UNCHANGED aux

\* a suspended reporter call returns (normally, or after logging
\* AgentNetworkError): the execution runs on to its finally block
ReportReturns(e) ==
    /\ st[e] \in {"reporting", "failing"}
    /\ ~must_cancel[e]
    /\ Finally(e, "finished")
    /\ UNCHANGED <<permits, task, must_cancel, body, reports, nextExec,
                   response, sd, awaited>>
    /\ UNCHANGED aux

\* CancelledError is thrown into a cancelled execution.  One that never
\* started is closed without entering the try block; otherwise the error is
\* not an Exception, passes both except clauses and the finally block runs.
DeliverCancel(e) ==
    /\ must_cancel[e]
    /\ InFlight(e)
    /\ must_cancel' = [must_cancel EXCEPT ![e] = FALSE]
    /\ body' = [body EXCEPT ![e] = IF st[e] = "body" THEN "cancelled" ELSE @]
    /\ IF st[e] = "scheduled"
       THEN /\ st' = [st EXCEPT ![e] = "cancelled"]
            /\ UNCHANGED <<current_load, task_registry>>
       ELSE Finally(e, "cancelled")
    /\ UNCHANGED <<permits, task, reports, nextExec, response, sd, awaited>>
    /\ UNCHANGED aux

Handles(reg) == {reg[t] : t \in TaskIds} \ {0}

\* shutdown(): cancel every registered handle and gather them; with nothing
\* registered gather is done at once and shutdown returns
ShutdownCancelAll ==
    /\ sd = "running"
    /\ must_cancel' = [e \in Execs |->
                         must_cancel[e] \/ (e \in Handles(task_registry) /\ InFlight(e))]
    /\ awaited' = Handles(task_registry)
    /\ sd' = IF Handles(task_registry) = {} THEN "returned" ELSE "draining"
    /\ UNCHANGED <<task_registry, current_load, permits, st, task, body,
                   reports, nextExec, response>>
    /\ UNCHANGED aux

\* shutdown(): every gathered handle is done, gather and shutdown return
ShutdownReturn ==
    /\ sd = "draining"
    /\ \A e \in awaited : Terminal(e)
    /\ sd' = "returned"
    /\ UNCHANGED <<task_registry, current_load, permits, st, task, must_cancel,
                   body, reports, nextExec, response, awaited>>
    /\ UNCHANGED aux

Next ==
    \/ \E t \in TaskRequest : Reject(t)
    \/ \E t \in TaskRequest : Admit(t)
    \/ \E e \in Execs : StartExecution(e)
    \/ \E e \in Execs, s \in BOOLEAN : BodyReturns(e, s)
    \/ \E e \in Execs, s \in BOOLEAN : BodyRaises(e, s)
    \/ \E e \in Execs, s \in BOOLEAN : Timeout(e, s)
    \/ \E e \in Execs : ReportReturns(e)
    \/ \E e \in Execs : DeliverCancel(e)
    \/ ShutdownCancelAll
    \/ ShutdownReturn

Spec == Init /\ [][Next]_vars

\* The event loop runs every ready task, a task body ends or its deadline
\* expires, and a cancellation is delivered.  Nothing makes a request or a
\* shutdown arrive, and nothing makes a suspended reporter call return.
Fairness ==
    /\ \A e \in Execs : WF_vars(StartExecution(e))
    /\ \A e \in Execs : WF_vars(\E s \in BOOLEAN :
                           BodyReturns(e, s) \/ BodyRaises(e, s) \/ Timeout(e, s))
    /\ \A e \in Execs : WF_vars(DeliverCancel(e))
    /\ WF_vars(ShutdownReturn)

LiveSpec == Init /\ [][Next]_vars /\ Fairness

(***************************************************************************)
(* The request handler over every dictionary a TaskRequest can carry:      *)
(* required_resources is a Dict[str, float], so a kind may be missing or   *)
(* unknown to the limits.                                                  *)
(***************************************************************************)
WideProfiles ==
    { [cpu |-> F0_4, mem_gb |-> F1_0],
      [cpu |-> F1_55, mem_gb |-> F1_0],
      [cpu |-> F0_45, mem_gb |-> F1_0],
      [cpu |-> F0_2],
      [cpu |-> F0_2, mem_gb |-> F1_0, gpu |-> F1_0] }
WideRequest == [task_id : TaskIds, required_resources : WideProfiles]

\* _check_resources subscripts required["cpu"] and, when the cpu comparison
\* passes, required["mem_gb"]: a missing key raises KeyError
check_resources_raises(load, required) ==
    \/ "cpu" \notin DOMAIN required
    \/ /\ FLeq(FAdd(load["cpu"], required["cpu"]), resource_limits["cpu"])
       /\ "mem_gb" \notin DOMAIN required

\* _handle_task_request, the resource check raises: the handler is left by
\* the exception before anything is changed
HandlerRaises(t) ==
    /\ sd = "running"
    /\ check_resources_raises(current_load, t.required_resources)
    /\ response' = "KeyError"
    /\ UNCHANGED <<task_registry, current_load, permits, st, task, must_cancel,
                   body, reports, nextExec, sd, awaited>>
    /\ UNCHANGED aux

WideReject(t) ==
    /\ ~check_resources_raises(current_load, t.required_resources)
    /\ Reject(t)

WideAdmit(t) ==
    /\ ~check_resources_raises(current_load, t.required_resources)
    /\ Admit(t)

WideNext ==
    \/ \E t \in WideRequest : HandlerRaises(t)
    \/ \E t \in WideRequest : WideReject(t)
    \/ \E t \in WideRequest : WideAdmit(t)
    \/ \E e \in Execs : StartExecution(e)
    \/ \E e \in Execs, s \in BOOLEAN : BodyReturns(e, s)
    \/ \E e \in Execs, s \in BOOLEAN : BodyRaises(e, s)
    \/ \E e \in Execs, s \in BOOLEAN : Timeout(e, s)
    \/ \E e \in Execs : ReportReturns(e)
    \/ \E e \in Execs : DeliverCancel(e)
    \/ ShutdownCancelAll
    \/ ShutdownReturn

WideSpec == Init /\ [][WideNext]_vars

(***************************************************************************)
(* The worker with its monitoring call.                                    *)
(***************************************************************************)
\* a snapshot that counts the executions holding load instead of the
\* registry entries
get_metrics_counts_started(load, reg) ==
    [cpu_usage    |-> load["cpu"],
     mem_usage_gb |-> load["mem_gb"],
     active_tasks |-> Cardinality({e \in Execs : st[e] \in {"body", "reporting", "failing"}})]
\* get_metrics(): the fields taken from the load and the registry
\* (queue_size is read from the BaseAgent's message queue)
get_metrics(load, reg) ==
    [cpu_usage    |-> load["cpu"],
     mem_usage_gb |-> load["mem_gb"],
     active_tasks |-> Cardinality({t \in TaskIds : reg[t] # 0})]

\* a call of get_metrics(): synchronous, so it runs between two steps of the
\* event loop and returns at once
GetMetrics ==
    /\ metrics' = <<get_metrics(current_load, task_registry)>>
    /\ UNCHANGED <<task_registry, current_load, permits, st, task, must_cancel,
                   body, reports, nextExec, response, sd, awaited, construction>>

MetricsNext ==
    \/ \E t \in TaskRequest : Reject(t)
    \/ \E t \in TaskRequest : Admit(t)
    \/ \E e \in Execs : StartExecution(e)
    \/ \E e \in Execs, s \in BOOLEAN : BodyReturns(e, s)
    \/ \E e \in Execs, s \in BOOLEAN : BodyRaises(e, s)
    \/ \E e \in Execs, s \in BOOLEAN : Timeout(e, s)
    \/ \E e \in Execs : ReportReturns(e)
    \/ \E e \in Execs : DeliverCancel(e)
    \/ ShutdownCancelAll
    \/ ShutdownReturn
    \/ GetMetrics

MetricsSpec == Init /\ [][MetricsNext]_vars

(***************************************************************************)
(* Construction of a WorkerConfig from given field values.                 *)
(***************************************************************************)
FNeg1_0 == FNeg(F1_0)
LimitValues == {FNeg1_0, Zero, F2_0}
LimitMaps ==
    [{"cpu", "mem_gb"} -> LimitValues] \cup [{"cpu", "mem_gb", "gpu"} -> LimitValues]
Configs == [max_concurrent_tasks : {-1, 0, 1, 5}, resource_limits : LimitMaps]

ConfigInit ==
    /\ InitWorker
    /\ \E c \in Configs : construction = [config |-> c, outcome |-> "pending"]

\* WorkerConfig(max_concurrent_tasks=..., resource_limits=...): the field
\* constraint and the validator run, the call returns or raises
Construct ==
    /\ construction.outcome = "pending"
    /\ construction' = [construction EXCEPT !.outcome = WorkerConfig(construction.config)]
    /\ UNCHANGED <<task_registry, current_load, permits, st, task, must_cancel,
                   body, reports, nextExec, response, sd, awaited, metrics>>

ConfigNext == Construct

ConfigSpec == ConfigInit /\ [][ConfigNext]_vars

(***************************************************************************)
(* Properties.                                                             *)
(***************************************************************************)
\* exact (unrounded) sum, over the executions 1..n that are admitted and not
\* terminal, of the amount of kind k they require
RECURSIVE Committed(_, _)
Committed(n, k) ==
    IF n = 0 THEN Zero
    ELSE ExactAdd(Committed(n - 1, k),
                  IF InFlight(n) THEN task[n].required_resources[k] ELSE Zero)

InFlightExecs == {e \in Execs : InFlight(e)}
LoadIsZero == \A k \in Kinds : current_load[k] = Zero

\* C1: at every reachable state and for every resource kind, the required
\* resources of the admitted tasks that are not yet terminal sum to at most
\* the configured limit of that kind.
C1_AdmittedWithinLimits ==
    \A k \in Kinds : FLeq(Committed(MaxExec, k), resource_limits[k])

\* C2: at most max_concurrent_tasks executions are in flight (admitted and
\* not yet terminal) at any time.
C2_InFlightWithinSlots == Cardinality(InFlightExecs) <= max_concurrent_tasks

\* C3: once an admitted task's execution is terminal, exactly one TaskResult
\* has been handed to the reporter for it.
C3_ExactlyOneResult ==
    \A e \in Execs : Terminal(e) => Len(reports[e]) = 1

\* C4: load increments and decrements match exactly, so whenever no admitted
\* task is non-terminal the current load is 0 for every kind.
C4_LoadZeroWhenIdle == (InFlightExecs = {}) => LoadIsZero

\* C5: when shutdown() has returned, every admitted execution is terminal and
\* the task registry is empty.
C5_ShutdownDrains ==
    sd = "returned" => /\ InFlightExecs = {}
                       /\ Handles(task_registry) = {}

\* C6: a request handled by _handle_task_request that is answered
\* insufficient_resources did exceed the remaining capacity, and the step
\* leaves the load, the registry, the free permits and every execution as
\* they were.
RejectedStep ==
    /\ response' = "insufficient_resources"
    /\ response' # response
ExceedsCapacity(t) ==
    \E k \in Kinds :
        ~FLeq(ExactAdd(current_load[k], t.required_resources[k]), resource_limits[k])
C6_RejectMutatesNothing ==
    [][RejectedStep =>
         /\ \E t \in TaskRequest : ExceedsCapacity(t)
         /\ UNCHANGED <<current_load, task_registry, permits, st, task, reports,
                        nextExec>>]_vars
\* a rejection has been returned while a task holds load
C6_Witness ==
    /\ response = "insufficient_resources"
    /\ \E e \in Execs : st[e] = "body"
    /\ ~LoadIsZero

OnlyTask(e) == \A o \in Execs \ {e} : st[o] = "unborn"

RaiseStep(e) == body[e] = "pending" /\ body'[e] = "raised"
C9_FailureContained ==
    [][\A e \in Execs :
         RaiseStep(e) =>
            /\ reports'[e] = <<TaskResult(task[e].task_id, FALSE, "error")>>
            /\ \A o \in Execs \ {e} :
                 /\ st'[o] = st[o]
                 /\ reports'[o] = reports[o]
                 /\ must_cancel'[o] = must_cancel[o]
                 /\ InFlight(o) =>
                      \A t \in TaskIds : task_registry[t] = o => task_registry'[t] = o
            /\ \/ current_load' = current_load
               \/ \A k \in Kinds :
                    ExactAdd(current_load'[k], task[e].required_resources[k])
                      = current_load[k]]_vars

\* C10: an execution waiting for a reporter call always goes on to its
\* terminal cleanup (load decrement and registry removal), whether or not
\* the call returns.
C10_CleanupNotBlocked ==
    \A e \in Execs : (st[e] \in {"reporting", "failing"}) ~> Terminal(e)

Registered(e) == task_registry[task[e].task_id] = e

\* C11: an admitted execution has its registry entry as long as it is not
\* terminal, and once its handle is terminal the registry no longer holds it.
C11_EntryLifecycle ==
    \A e \in Execs :
        /\ InFlight(e) => Registered(e)
        /\ Terminal(e) => ~Registered(e)

\* C12: for every kind the current load equals the sum of the requirements of
\* all in-flight tasks, those admitted but not yet started included.
C12_LoadIsSumOfInFlight ==
    \A k \in Kinds : current_load[k] = Committed(MaxExec, k)

\* what the admission rule asks for: every kind of the request that has a
\* configured limit fits under that limit on top of the current load
FitsEveryLimitedKind(load, required) ==
    \A k \in DOMAIN required \cap DOMAIN resource_limits :
        FLeq(FAdd(load[k], required[k]), resource_limits[k])

\* C13: no request makes the admission check end in an error, and the check
\* admits a request exactly when every kind present both in its profile and
\* in the limits fits under the limit on top of the current load.
C13_ChecksPresentKinds ==
    /\ response # "KeyError"
    /\ \A t \in WideRequest :
          ~check_resources_raises(current_load, t.required_resources)
            => (check_resources(current_load, t.required_resources)
                  <=> FitsEveryLimitedKind(current_load, t.required_resources))

Started(e) == st[e] \in {"body", "reporting", "failing"}

\* the load a worker accounts for when it has only run the started
\* executions 1..n other than e
RECURSIVE LoadOfOthers(_, _, _)
LoadOfOthers(n, e, k) ==
    IF n = 0 THEN Zero
    ELSE FAdd(LoadOfOthers(n - 1, e, k),
              IF n # e /\ Started(n) THEN task[n].required_resources[k] ELSE Zero)

FitsWithout(e, required) ==
    \A k \in Kinds :
        FLeq(FAdd(LoadOfOthers(MaxExec, e, k), required[k]), resource_limits[k])

\* C14: when a request is refused only because of the load a running
\* execution holds (it fits on top of what the other executions hold), then
\* in the state where that execution has become terminal the same request
\* passes the admission check.
C14_CapacityReusable ==
    [][\A e \in Execs, t \in WideRequest :
          ( /\ DOMAIN t.required_resources = Kinds
            /\ Started(e)
            /\ Terminal(e)'
            /\ ~check_resources(current_load, t.required_resources)
            /\ FitsWithout(e, t.required_resources) )
          => check_resources(current_load', t.required_resources)]_vars

RegistrySize == Cardinality({t \in TaskIds : task_registry[t] # 0})

\* C15: a step that returns a new metrics snapshot leaves the load and the
\* registry (and every execution) as they were, and the snapshot carries the
\* load of that instant as cpu_usage and mem_usage_gb and the number of
\* registry entries as active_tasks.
C15_MetricsReadOnly ==
    [][metrics' # metrics =>
         /\ UNCHANGED <<current_load, task_registry, permits, st, task, reports>>
         /\ Len(metrics') = 1
         /\ metrics'[1].cpu_usage = current_load["cpu"]
         /\ metrics'[1].mem_usage_gb = current_load["mem_gb"]
         /\ metrics'[1].active_tasks = RegistrySize]_vars

\* a snapshot taken while two executions hold load under one registry entry
C15_Witness ==
    /\ metrics = <<[cpu_usage    |-> current_load["cpu"],
                    mem_usage_gb |-> current_load["mem_gb"],
                    active_tasks |-> 1]>>
    /\ RegistrySize = 1
    /\ \A e \in Execs : st[e] = "body"
    /\ ~LoadIsZero

Positive(x) == ~FLeq(x, Zero)

\* C17: a WorkerConfig is constructed only when max_concurrent_tasks > 0 and
\* every entry of resource_limits, of whatever kind, is > 0.
C17_InvalidConfigRejected ==
    construction.outcome = "ok" =>
        /\ construction.config.max_concurrent_tasks > 0
        /\ \A k \in DOMAIN construction.config.resource_limits :
               Positive(construction.config.resource_limits[k])

\* C18: the current load is >= 0 for every kind (every request of the model
\* requires non-negative amounts).
C18_LoadNonNegative ==
    \A k \in Kinds : ~current_load[k].neg

\* C19: every execution that is not terminal is the handle of some registry
\* entry, whatever task_ids the admitted requests carry.
C19_NonTerminalTracked ==
    \A e \in Execs : InFlight(e) => e \in Handles(task_registry)

\* C20: the number of free permits is never below 0 nor above
\* max_concurrent_tasks, and between handler runs (every state: the handler
\* does not suspend) it equals max_concurrent_tasks, however many executions
\* are in flight.
C20_PermitsRestored ==
    /\ 0 <= permits
    /\ permits <= max_concurrent_tasks
    /\ permits = max_concurrent_tasks

\* the handler has admitted more requests than there are permits, and all
\* permits are free
C20_Witness ==
    /\ response = "queued"
    /\ Cardinality(InFlightExecs) > max_concurrent_tasks
    /\ permits = max_concurrent_tasks
====
